---- MODULE Spec2Model ----
(***************************************************************************)
(* Model of the PyME credit-guarantee quoter (quoter.py, features.py,      *)
(* app.py).                                                                *)
(*                                                                         *)
(* Number representation.  The program computes with floats; the model     *)
(* uses exact fixed point so that every comparison the code makes is       *)
(* decided exactly:                                                        *)
(*   money            integer count of 10 MXN (1,000,000 MXN = 100000)     *)
(*   pd               per mille (0.01 = 10, 1.0 = 1000)                    *)
(*   calibration      tenths (1.0 = 10)                                    *)
(*   bank_rate        percent per year, as in the code                     *)
(*   quotients        a pair <<numerator, denominator>> (Frac)             *)
(*   monthly_payment  principal * num / den, kept as the three integers    *)
(* All inputs are chosen so that the scaled products divide exactly.       *)
(***************************************************************************)
EXTENDS Integers, Sequences, FiniteSets, TLC

\* ------------------------------------------------------------------ bounds
MaxAmount == 3      \* approved_amount ranges over -1..MaxAmount million MXN
MaxTerm == 2        \* term_months ranges over 0..MaxTerm
MaxEmployees == 1   \* num_employees ranges over -1..MaxEmployees
MaxCalls == 2       \* load_models invocations started in one process run
MaxEnv == 1         \* changes made to the model files from outside the process

Threads == {1, 2}

\* ------------------------------------------------------------ input domains
\* Multiples of 1,000,000 MXN from -1,000,000 up, and -200,000 MXN: a negative
\* amount small enough for a negative expected loss to fall below its cap.
Amounts == {k * 100000 : k \in -1..MaxAmount} \cup {-20000}
Terms == 0..MaxTerm
Employees == -1..MaxEmployees
BankRates == {0, 12}
ScianCodes == {<<"4", "6">>, <<"4", "6", "1">>}
StateCodes == {<<"J", "A", "L">>, <<"j", "a", "l">>}

Requests ==
    [approved_amount : Amounts, term_months : Terms, num_employees : Employees,
     is_new_business : BOOLEAN, scian_code : ScianCodes, state_code : StateCodes,
     bank_rate : BankRates, has_real_estate : BOOLEAN, in_recession : BOOLEAN]

\* The requests used when several threads interleave: one well-formed, one
\* with a zero term.
SmallRequests ==
    [approved_amount : {100000} \cap Amounts, term_months : {0, 1} \cap Terms,
     num_employees : {1} \cap Employees, is_new_business : {FALSE},
     scian_code : {<<"4", "6">>}, state_code : {<<"J", "A", "L">>},
     bank_rate : {12}, has_real_estate : {FALSE}, in_recession : {FALSE}]

\* ------------------------------------------------------------------ helpers
Frac(n, d) == <<n, d>>

RECURSIVE Pow(_, _)
Pow(b, n) == IF n = 0 THEN 1 ELSE b * Pow(b, n - 1)

RECURSIVE Gcd(_, _)
Gcd(a, b) == IF b = 0 THEN a ELSE Gcd(b, a % b)

PyMax(a, b) == IF b > a THEN b ELSE a     \* Python max(a, b): first unless b > a
PyMin(a, b) == IF b < a THEN b ELSE a     \* Python min(a, b): first unless b < a

\* str.upper() on the letters that occur in the state codes of the model
UpperChar(c) ==
    CASE c = "j" -> "J" [] c = "a" -> "A" [] c = "l" -> "L" [] OTHER -> c

Upper(s) == [i \in 1..Len(s) |-> UpperChar(s[i])]

\* s[:2]
Prefix2(s) == SubSeq(s, 1, IF Len(s) < 2 THEN Len(s) ELSE 2)

\* ------------------------------------------------------- quoter.py, pure part
\* Variant: the 80% tier ends below 2,000,000 instead of at it.
calculate_nafin_guarantee_strict(approved_amount) ==
    IF approved_amount < 200000
    THEN (approved_amount * 80) \div 100
    ELSE (approved_amount * 70) \div 100

calculate_nafin_guarantee(approved_amount) ==
    IF approved_amount <= 200000
    THEN (approved_amount * 80) \div 100
    ELSE (approved_amount * 70) \div 100

\* monthly_rate = (annual_rate / 100) / 12, as a reduced fraction <<a, b>>
monthly_rate(annual_rate) ==
    LET g == Gcd(annual_rate, 1200) IN Frac(annual_rate \div g, 1200 \div g)

\* Variant: the zero-rate branch is missing, the annuity formula is always used.
calculate_monthly_payment_annuity_only(principal, annual_rate, term_months) ==
    LET a == monthly_rate(annual_rate)[1]
        b == monthly_rate(annual_rate)[2]
        g == Pow(a + b, term_months)
    IN  [principal |-> principal,
         num |-> a * g,
         den |-> b * (g - Pow(b, term_months))]

\* The value calculate_monthly_payment returns, principal * num / den.
\* den = 0 is the division by zero of the code.
calculate_monthly_payment(principal, annual_rate, term_months) ==
    IF annual_rate = 0
    THEN [principal |-> principal, num |-> 1, den |-> term_months]
    ELSE LET a == monthly_rate(annual_rate)[1]
             b == monthly_rate(annual_rate)[2]
             g == Pow(a + b, term_months)       \* (1 + r)^n * b^n
         IN  [principal |-> principal,
              num |-> a * g,
              den |-> b * (g - Pow(b, term_months))]

\* create_loan_features raises ZeroDivisionError at Loan_per_Employee
\* (Python int / int) when num_employees + 1 = 0.
create_loan_features_raises(req) == req.num_employees + 1 = 0

create_loan_features(req) ==
    LET nafin_guaranteed == calculate_nafin_guarantee(req.approved_amount) IN
    [GrAppv |-> req.approved_amount,
     NAFIN_Appv |-> nafin_guaranteed,
     Term |-> req.term_months,
     NoEmp |-> req.num_employees,
     IsNewBusiness |-> IF req.is_new_business THEN 1 ELSE 0,
     NewExist |-> IF req.is_new_business THEN 1 ELSE 2,
     SCIAN |-> Prefix2(req.scian_code),
     State |-> Upper(req.state_code),
     NAFIN_Portion |-> IF req.approved_amount > 0
                       THEN Frac(nafin_guaranteed, req.approved_amount)
                       ELSE Frac(0, 1),
     Loan_per_Employee |-> Frac(req.approved_amount, req.num_employees + 1),
     Term_Years |-> Frac(req.term_months, 12),
     Debt_to_NAFIN |-> req.approved_amount - nafin_guaranteed,
     Log_GrAppv |-> <<"log1p", req.approved_amount>>,
     HasRealEstate |-> 0,
     InRecession |-> 0,
     IsUrban |-> 1]

\* ---------------------------------------------------------------- features.py
\* create_preprocessor: the column lists of the ColumnTransformer.  In the
\* source the literal  'NAFIN_Portion',''  is followed by 'Loan_per_Emp', so
\* the empty string concatenates with it and the list holds 'Loan_per_Emp'.
create_preprocessor ==
    [num_feats |-> <<"GrAppv", "NAFIN_Appv", "Debt_to_NAFIN", "Log_GrAppv",
                     "Term", "Term_Years", "NoEmp", "NAFIN_Portion",
                     "Loan_per_Emp", "Log_Loan_per_Emp", "HasRealEstate",
                     "RealEstate_Exposure", "InRecession", "Bank_Exposure",
                     "Bank_Exposure_Ratio", "Loan_Age", "Bank_Frequency",
                     "Bank_Frequency_Log">>,
     cat_feats |-> <<"SCIAN", "State", "Region", "IsNewBusiness", "IsUrban">>,
     handle_unknown |-> "use_encoded_value",
     unknown_value |-> -1,
     encoded_missing_value |-> -2]

Range(s) == {s[i] : i \in 1..Len(s)}

\* The columns ColumnTransformer.transform requires of its input frame.
RequiredColumns(preprocessor) ==
    Range(preprocessor.num_feats) \cup Range(preprocessor.cat_feats)

\* preprocessor.transform(X) raises ValueError when a required column is
\* missing from X.
transform_data_raises(preprocessor, X) ==
    ~(RequiredColumns(preprocessor) \subseteq DOMAIN X)

\* OrdinalEncoder.transform of one value against the fitted categories.
OrdinalCode(preprocessor, cats, v) ==
    IF \E i \in 1..Len(cats) : cats[i] = v
    THEN (CHOOSE i \in 1..Len(cats) : cats[i] = v) - 1
    ELSE preprocessor.unknown_value

\* A cell of a categorical column: a value, or missing (None / NaN).
Present(v) == [missing |-> FALSE, value |-> v]
MissingCell == [missing |-> TRUE]

\* OrdinalEncoder.transform of one cell of column c.  The encoder writes
\* encoded_missing_value only in the columns whose fitted categories hold the
\* missing value (missing_indices); in any other column a missing cell is a
\* category not seen at fit time.  An unseen category raises ValueError under
\* handle_unknown = "error" and takes unknown_value under "use_encoded_value".
EncodeCell(preprocessor, c, cell) ==
    IF cell.missing /\ c \in preprocessor.missing_indices
    THEN [raised |-> FALSE, code |-> preprocessor.encoded_missing_value]
    ELSE IF cell.missing
    THEN [raised |-> preprocessor.handle_unknown = "error",
          code |-> preprocessor.unknown_value]
    ELSE [raised |-> /\ preprocessor.handle_unknown = "error"
                     /\ cell.value \notin Range(preprocessor.categories[c]),
          code |-> OrdinalCode(preprocessor, preprocessor.categories[c], cell.value)]

\* transform_data: one output column per required column, named by
\* get_feature_names_out ("num__c" / "cat__c", here the pair <<"num", c>>).
\* The fitted Yeo-Johnson map of a numeric column is strictly increasing; its
\* output is kept as the tagged input [yj |-> x].
transform_data(preprocessor, X) ==
    [col \in ({<<"num", c>> : c \in Range(preprocessor.num_feats)}
                \cup {<<"cat", c>> : c \in Range(preprocessor.cat_feats)}) |->
        IF col[1] = "num"
        THEN [yj |-> X[col[2]]]
        ELSE EncodeCell(preprocessor, col[2], Present(X[col[2]])).code]

\* --------------------------------------------------- the pickled model bundle
\* What a model file can hold.  The scorers are opaque fitted estimators; the
\* model takes them to be one-split trees over a numeric output column
\* (leaf `le` when the raw value <= thr, else `gt`).  pd leaves are per mille,
\* lgd leaves are money.
QuoterPreprocessor ==
    [num_feats |-> <<"GrAppv", "NAFIN_Appv", "Debt_to_NAFIN", "Log_GrAppv",
                     "Term", "Term_Years", "NoEmp", "NAFIN_Portion",
                     "HasRealEstate", "InRecession">>,
     cat_feats |-> <<"SCIAN", "State", "IsNewBusiness", "IsUrban">>,
     handle_unknown |-> "use_encoded_value",
     unknown_value |-> -1,
     encoded_missing_value |-> -2]

FittedCategories ==
    [c \in {"SCIAN", "State", "Region", "IsNewBusiness", "IsUrban"} |->
        CASE c = "SCIAN" -> << <<"3", "1">>, <<"4", "6">> >>
          [] c = "State" -> << <<"C", "D", "M", "X">>, <<"J", "A", "L">> >>
          [] c = "Region" -> << "Center", "North", "Other", "South" >>
          [] c = "IsNewBusiness" -> <<0, 1>>
          [] c = "IsUrban" -> <<0, 1>>]

\* The preprocessor fitted on data in which the columns `missing_seen` held
\* missing values.
FitSeen(preprocessor, missing_seen) ==
    [num_feats |-> preprocessor.num_feats,
     cat_feats |-> preprocessor.cat_feats,
     handle_unknown |-> preprocessor.handle_unknown,
     unknown_value |-> preprocessor.unknown_value,
     encoded_missing_value |-> preprocessor.encoded_missing_value,
     categories |-> FittedCategories,
     missing_indices |-> missing_seen]

\* prepare_data fills every missing SCIAN, State, Region, IsNewBusiness and
\* IsUrban before the fit, so the fitted encoder has seen no missing value.
Fit(preprocessor) == FitSeen(preprocessor, {})

\* The cells a categorical column is transformed on: the fitted categories,
\* one category not seen at fit time, and the missing value.
UnseenCategory(c) ==
    CASE c = "SCIAN" -> <<"9", "9">>
      [] c = "State" -> <<"X", "X">>
      [] c = "Region" -> "West"
      [] c = "IsNewBusiness" -> 2
      [] c = "IsUrban" -> 2

Cells(c) ==
    {Present(v) : v \in Range(FittedCategories[c]) \cup {UnseenCategory(c)}}
        \cup {MissingCell}

Stump(col, thr, le, gt) == [col |-> col, thr |-> thr, le |-> le, gt |-> gt]

\* B_full  : fitted from create_preprocessor (what features.py builds)
\* B_ok    : fitted on exactly the columns quoter.py supplies
\* B_neg   : as B_ok, with an LGD regressor that has a negative leaf
\* B_part  : a pickle that lacks the 'lgd_model' key
BundleOf(id) ==
    CASE id = "B_full" ->
            [preprocessor |-> Fit(create_preprocessor),
             pd_model |-> Stump(<<"num", "Term">>, 1, 5, 50),
             lgd_model |-> Stump(<<"num", "HasRealEstate">>, 0, 100000, 20000),
             calibration_factor |-> 10]
      [] id = "B_ok" ->
            [preprocessor |-> Fit(QuoterPreprocessor),
             pd_model |-> Stump(<<"num", "Term">>, 1, 5, 50),
             lgd_model |-> Stump(<<"num", "HasRealEstate">>, 0, 100000, 20000),
             calibration_factor |-> 10]
      [] id = "B_neg" ->
            [preprocessor |-> Fit(QuoterPreprocessor),
             pd_model |-> Stump(<<"num", "InRecession">>, 0, 0, 20),
             lgd_model |-> Stump(<<"num", "HasRealEstate">>, 0, 100000, -50000),
             calibration_factor |-> 15]
      [] id = "B_part" ->
            [preprocessor |-> Fit(QuoterPreprocessor),
             pd_model |-> Stump(<<"num", "Term">>, 1, 5, 50),
             calibration_factor |-> 10]

BundleIds == {"B_full", "B_ok", "B_neg", "B_part"}
TrainedIds == {"B_full", "B_ok"}

\* A file is absent, unreadable by pickle, or holds one of the bundles.
FileContents == {"absent", "corrupt"} \cup BundleIds

\* The older file name, and the writes made from outside the process, range
\* over one content of each kind.
LegacyContents == {"absent", "corrupt", "B_ok"}

\* pd_model.predict_proba(X)[:, 1][0] and lgd_model.predict(X)[0]
Predict(model, X) == IF X[model.col].yj <= model.thr THEN model.le ELSE model.gt

\* ------------------------------------------------ quoter.py, calculate_quote
NoFrame == [c \in {} |-> 0]
NoQuote == [c \in {} |-> 0]

Raised(error, loan_df) ==
    [kind |-> "error", error |-> error, loan_df |-> loan_df, quote |-> NoQuote]

\* The frame handed to transform_data: create_loan_features plus the two
\* column assignments of calculate_quote.
LoanFrame(req) ==
    [create_loan_features(req) EXCEPT
        !.HasRealEstate = IF req.has_real_estate THEN 1 ELSE 0,
        !.InRecession = IF req.in_recession THEN 1 ELSE 0]

\* Fee computation.  pd_pred and lgd_pred are numpy scalars and so are el_pred
\* and the raw fee; the floor and the cap are Python floats.  max and min
\* return one of their arguments, so the fee is a numpy scalar exactly when it
\* is the raw fee.  is_np records that: numpy division by zero yields inf or
\* nan, Python float division by zero raises ZeroDivisionError.
\* Variant: the 5% cap is not applied.
FeeOf_NoCap(el_pred, nafin_guaranteed) ==
    LET raw == (el_pred * 12) \div 10
        floor == (nafin_guaranteed * 5) \div 1000
        f1 == PyMax(raw, floor)
    IN  [value |-> f1, is_np |-> ~(floor > raw)]

FeeOf(el_pred, nafin_guaranteed) ==
    LET raw == (el_pred * 12) \div 10
        floor == (nafin_guaranteed * 5) \div 1000
        cap == (nafin_guaranteed * 50) \div 1000
        f1 == PyMax(raw, floor)
        f2 == PyMin(f1, cap)
    IN  [value |-> f2, is_np |-> ~(floor > raw) /\ ~(cap < f1)]

\* Variant: the fee is left out of the financed total.
TotalFinanced_PrincipalOnly(approved_amount, guarantee_fee) == approved_amount

\* total_financed = approved_amount + guarantee_fee
TotalFinanced(approved_amount, guarantee_fee) == approved_amount + guarantee_fee

\* Lines 109-154 of calculate_quote, given the loaded artifacts.
QuoteBody(artifacts, req) ==
    IF create_loan_features_raises(req)
    THEN Raised("ZeroDivisionError", NoFrame)
    ELSE
    LET loan_df == LoanFrame(req) IN
    IF "preprocessor" \notin DOMAIN artifacts
    THEN Raised("KeyError", loan_df)
    ELSE IF transform_data_raises(artifacts.preprocessor, loan_df)
    THEN Raised("ValueError", loan_df)
    ELSE
    LET X_processed == transform_data(artifacts.preprocessor, loan_df) IN
    IF \/ "pd_model" \notin DOMAIN artifacts
       \/ "lgd_model" \notin DOMAIN artifacts
       \/ "calibration_factor" \notin DOMAIN artifacts
    THEN Raised("KeyError", loan_df)
    ELSE
    LET pd_pred == Predict(artifacts.pd_model, X_processed)
        lgd_pred == Predict(artifacts.lgd_model, X_processed)
        el_pred == (pd_pred * lgd_pred * artifacts.calibration_factor) \div 10000
        nafin_guaranteed == calculate_nafin_guarantee(req.approved_amount)
        fee == FeeOf(el_pred, nafin_guaranteed)
        guarantee_fee == fee.value
        total_financed == TotalFinanced(req.approved_amount, guarantee_fee)
        monthly_payment ==
            calculate_monthly_payment(total_financed, req.bank_rate, req.term_months)
    IN
    IF monthly_payment.den = 0 /\ ~fee.is_np
    THEN Raised("ZeroDivisionError", loan_df)
    ELSE [kind |-> "quote", error |-> "", loan_df |-> loan_df,
          quote |-> [approved_amount |-> req.approved_amount,
                     nafin_guaranteed |-> nafin_guaranteed,
                     pd |-> pd_pred,
                     lgd |-> lgd_pred,
                     expected_loss |-> el_pred,
                     guarantee_fee |-> guarantee_fee,
                     total_financed |-> total_financed,
                     monthly_payment |-> monthly_payment,
                     term_months |-> req.term_months,
                     bank_rate |-> req.bank_rate,
                     scian_code |-> req.scian_code,
                     state |-> req.state_code]]

\* ------------------------------------------------------------ app.py, main
\* What the button handler shows for the outcome of calculate_quote: it reads
\* quote['gps_category'] first, and any exception ends in st.error.
AppRender(result) ==
    IF result.kind = "error" THEN "st.error"
    ELSE IF "gps_category" \notin DOMAIN result.quote THEN "st.error"
    ELSE IF result.quote.gps_category = "Ultra-Oro" THEN "category-ultra-oro"  \* en dash in app.py
    ELSE IF result.quote.gps_category = "Oro" THEN "category-oro"
    ELSE "category-rechazo"

\* ------------------------------------------------------------------- state
VARIABLES
    files,          \* model file name -> what the file holds
    pc,             \* per thread: where it is in load_models / calculate_quote
    kind,           \* per thread: "quote" (calculate_quote) or "preload" (app start)
    artifacts,      \* per thread: the bundle load_models returned, or "none"
    route,          \* per thread: the file (or training) the bundle came from
    seen,           \* per thread: what pickle.load found in the file it opened
    after_failure,  \* per thread: the call began after some load had failed
    nCalls,         \* load_models invocations started
    nEnv,           \* outside changes to the model files
    nLoads,         \* pickle.load calls that returned a bundle
    nTrainRuns,     \* train.main() runs started
    loadFailed,     \* some load_models call has raised
    returned,       \* the last outcome handed back to a caller
    answered        \* the outcomes of the calculate_quote calls so far

vars == <<files, pc, kind, artifacts, route, seen, after_failure, nCalls, nEnv,
          nLoads, nTrainRuns, loadFailed, returned, answered>>

Primary == "sba_mexico_model.pkl"
Secondary == "sba_model.pkl"
ModelFiles == {Primary, Secondary}

NoReq == [c \in {} |-> 0]

NoReturn ==
    [kind |-> "none", thread |-> 0, req |-> NoReq, loan_df |-> NoFrame,
     quote |-> NoQuote, error |-> "", route |-> "none", bundle |-> "none",
     after_failure |-> FALSE, display |-> ""]

Init ==
    /\ files \in {f \in [ModelFiles -> FileContents] : f[Secondary] \in LegacyContents}
    /\ pc = [t \in Threads |-> "idle"]
    /\ kind = [t \in Threads |-> "quote"]
    /\ artifacts = [t \in Threads |-> "none"]
    /\ route = [t \in Threads |-> "none"]
    /\ seen = [t \in Threads |-> "none"]
    /\ after_failure = [t \in Threads |-> FALSE]
    /\ nCalls = 0
    /\ nEnv = 0
    /\ nLoads = 0
    /\ nTrainRuns = 0
    /\ loadFailed = FALSE
    /\ returned = NoReturn
    /\ answered = {}

\* ------------------------------------------------------------- load_models
\* Variant: an unreadable file yields a default dictionary instead of raising.
Unpickle_Default(content) == IF content = "corrupt" THEN "B_part" ELSE content

\* pickle.load(f): raises on an unreadable file, else returns the object.
Unpickle(content) == IF content = "corrupt" THEN "raise" ELSE content

\* Entry of load_models, from calculate_quote (k = "quote") or from the
\* start-up block of app.py (k = "preload").
Enter(t, k) ==
    /\ pc[t] = "idle"
    /\ nCalls < MaxCalls
    /\ nCalls' = nCalls + 1
    /\ pc' = [pc EXCEPT ![t] = "primary"]
    /\ kind' = [kind EXCEPT ![t] = k]
    /\ after_failure' = [after_failure EXCEPT ![t] = loadFailed]
    /\ returned' = NoReturn
    /\ UNCHANGED <<files, artifacts, route, seen, nEnv, nLoads, nTrainRuns, loadFailed,
                   answered>>

CallQuote(t) == Enter(t, "quote")

AppStartup(t) == Enter(t, "preload")

\* load_models raises `error`.  calculate_quote lets it propagate to its
\* caller; the start-up block of app.py swallows it and shows a warning.
LoadRaises(t, error, content) ==
    /\ loadFailed' = TRUE
    /\ pc' = [pc EXCEPT ![t] = "idle"]
    /\ artifacts' = [artifacts EXCEPT ![t] = "none"]
    /\ route' = [route EXCEPT ![t] = "none"]
    /\ seen' = [seen EXCEPT ![t] = "none"]
    /\ returned' =
         [kind |-> IF kind[t] = "quote" THEN "error" ELSE "preload",
          thread |-> t, req |-> NoReq, loan_df |-> NoFrame, quote |-> NoQuote,
          error |-> error, route |-> route[t], bundle |-> "none",
          after_failure |-> after_failure[t],
          display |-> IF kind[t] = "quote" THEN "st.error" ELSE "st.warning"]

\* open(model_file) + pickle.load returned the object `obj`.
LoadReturns(t, via, content, obj) ==
    /\ pc' = [pc EXCEPT ![t] = "loaded"]
    /\ artifacts' = [artifacts EXCEPT ![t] = obj]
    /\ route' = [route EXCEPT ![t] = via]
    /\ seen' = [seen EXCEPT ![t] = content]
    /\ nLoads' = nLoads + 1
    /\ UNCHANGED <<loadFailed, returned>>

\* One turn of the for loop: os.path.exists, open, pickle.load.
TryFile(t, file, via, next) ==
    /\ IF files[file] = "absent"
       THEN /\ pc' = [pc EXCEPT ![t] = next]
            /\ UNCHANGED <<artifacts, route, seen, nLoads, loadFailed, returned>>
       ELSE IF Unpickle(files[file]) = "raise"
       THEN LoadRaises(t, "UnpicklingError", files[file]) /\ UNCHANGED nLoads
       ELSE LoadReturns(t, via, files[file], Unpickle(files[file]))
    /\ UNCHANGED <<files, kind, after_failure, nCalls, nEnv, nTrainRuns, answered>>

LoadPrimary(t) == pc[t] = "primary" /\ TryFile(t, Primary, "primary", "secondary")

LoadSecondary(t) == pc[t] = "secondary" /\ TryFile(t, Secondary, "secondary", "train")

\* import train; train.main(): writes sba_mexico_model.pkl, or raises.
Train(t) ==
    /\ pc[t] = "train"
    /\ nTrainRuns' = nTrainRuns + 1
    /\ \/ /\ \E b \in TrainedIds : files' = [files EXCEPT ![Primary] = b]
          /\ pc' = [pc EXCEPT ![t] = "trained"]
          /\ UNCHANGED <<artifacts, route, seen, loadFailed, returned>>
       \/ /\ LoadRaises(t, "TrainError", "absent")
          /\ UNCHANGED files
    /\ UNCHANGED <<kind, after_failure, nCalls, nEnv, nLoads, answered>>

\* The final open('sba_mexico_model.pkl') + pickle.load, with no exists check.
LoadTrained(t) ==
    /\ pc[t] = "trained"
    /\ IF files[Primary] = "absent"
       THEN LoadRaises(t, "FileNotFoundError", "absent") /\ UNCHANGED nLoads
       ELSE IF Unpickle(files[Primary]) = "raise"
       THEN LoadRaises(t, "UnpicklingError", files[Primary]) /\ UNCHANGED nLoads
       ELSE LoadReturns(t, "trained", files[Primary], Unpickle(files[Primary]))
    /\ UNCHANGED <<files, kind, after_failure, nCalls, nEnv, nTrainRuns, answered>>

\* app.py start-up: the bundle load_models returned is dropped, main() runs.
PreloadDone(t) ==
    /\ pc[t] = "loaded"
    /\ kind[t] = "preload"
    /\ pc' = [pc EXCEPT ![t] = "idle"]
    /\ artifacts' = [artifacts EXCEPT ![t] = "none"]
    /\ route' = [route EXCEPT ![t] = "none"]
    /\ seen' = [seen EXCEPT ![t] = "none"]
    /\ returned' =
         [kind |-> "preload", thread |-> t, req |-> NoReq, loan_df |-> NoFrame,
          quote |-> NoQuote, error |-> "", route |-> route[t],
          bundle |-> artifacts[t], after_failure |-> after_failure[t],
          display |-> ""]
    /\ UNCHANGED <<files, kind, after_failure, nCalls, nEnv, nLoads, nTrainRuns,
                   loadFailed, answered>>

\* Variant: the bundle is read again from the primary file at the moment of
\* use, instead of the object load_models returned to this call.
LoadedArtifacts_Reread(t) ==
    IF files[Primary] \in BundleIds THEN BundleOf(files[Primary])
    ELSE BundleOf(artifacts[t])

\* artifacts = load_models(): the local dictionary the call works on.
LoadedArtifacts(t) == BundleOf(artifacts[t])

\* The rest of calculate_quote for a request drawn from `reqs`, and what the
\* app shows for its outcome.
ComputeStep(t, reqs) ==
    /\ pc[t] = "loaded"
    /\ kind[t] = "quote"
    /\ \E req \in reqs :
         LET res == QuoteBody(LoadedArtifacts(t), req) IN
         returned' =
           [kind |-> res.kind, thread |-> t, req |-> req, loan_df |-> res.loan_df,
            quote |-> res.quote, error |-> res.error, route |-> route[t],
            bundle |-> artifacts[t], after_failure |-> after_failure[t],
            display |-> AppRender(res)]
    /\ pc' = [pc EXCEPT ![t] = "idle"]
    /\ artifacts' = [artifacts EXCEPT ![t] = "none"]
    /\ route' = [route EXCEPT ![t] = "none"]
    /\ seen' = [seen EXCEPT ![t] = "none"]
    /\ UNCHANGED <<files, kind, after_failure, nCalls, nEnv, nLoads, nTrainRuns,
                   loadFailed>>

Compute(t, reqs) == ComputeStep(t, reqs) /\ UNCHANGED answered

\* What a caller of calculate_quote can tell of one call: the arguments, the
\* bundle it ran against, and the record or the exception that came back.
Answer(r) ==
    [bundle |-> r.bundle, route |-> r.route, req |-> r.req, kind |-> r.kind,
     quote |-> r.quote, error |-> r.error]

\* The same step, with its outcome added to the log of answers.
ComputeLogged(t, reqs) ==
    /\ ComputeStep(t, reqs)
    /\ answered' = answered \cup {Answer(returned')}

\* Someone outside the process writes, replaces or removes a model file.
EnvChange ==
    /\ nEnv < MaxEnv
    /\ nEnv' = nEnv + 1
    /\ \E f \in ModelFiles, c \in LegacyContents :
         /\ c # files[f]
         /\ files' = [files EXCEPT ![f] = c]
    /\ UNCHANGED <<pc, kind, artifacts, route, seen, after_failure, nCalls, nLoads,
                   nTrainRuns, loadFailed, returned, answered>>

\* Concurrent requests of one process, with the files changing underneath.
Next ==
    \/ \E t \in Threads : CallQuote(t)
    \/ \E t \in Threads : AppStartup(t)
    \/ \E t \in Threads : LoadPrimary(t)
    \/ \E t \in Threads : LoadSecondary(t)
    \/ \E t \in Threads : Train(t)
    \/ \E t \in Threads : LoadTrained(t)
    \/ \E t \in Threads : PreloadDone(t)
    \/ \E t \in Threads : Compute(t, SmallRequests)
    \/ EnvChange

Spec == Init /\ [][Next]_vars

\* One caller at a time, over the whole request domain.
NextQuote ==
    \/ CallQuote(1)
    \/ AppStartup(1)
    \/ LoadPrimary(1)
    \/ LoadSecondary(1)
    \/ Train(1)
    \/ LoadTrained(1)
    \/ PreloadDone(1)
    \/ Compute(1, Requests)

SpecQuote == Init /\ [][NextQuote]_vars

\* The concurrent process again, keeping the log of answers.
NextRepeat ==
    \/ \E t \in Threads : CallQuote(t)
    \/ \E t \in Threads : AppStartup(t)
    \/ \E t \in Threads : LoadPrimary(t)
    \/ \E t \in Threads : LoadSecondary(t)
    \/ \E t \in Threads : Train(t)
    \/ \E t \in Threads : LoadTrained(t)
    \/ \E t \in Threads : PreloadDone(t)
    \/ \E t \in Threads : ComputeLogged(t, SmallRequests)
    \/ EnvChange

SpecRepeat == Init /\ [][NextRepeat]_vars

\* transform_data on a frame whose categorical column c holds `cell`, with
\* the preprocessor of create_preprocessor fitted with or without missing
\* values in its training columns.
TransformCell ==
    /\ \E missing_seen \in {{}, Range(create_preprocessor.cat_feats)},
          c \in Range(create_preprocessor.cat_feats) :
         \E cell \in Cells(c) :
           LET fitted == FitSeen(create_preprocessor, missing_seen)
               out == EncodeCell(fitted, c, cell)
           IN  returned' =
                 [kind |-> "encoded", column |-> c, cell |-> cell,
                  missing_seen |-> missing_seen,
                  seen |-> ~cell.missing /\ cell.value \in Range(fitted.categories[c]),
                  raised |-> out.raised, code |-> out.code,
                  seen_codes |-> {EncodeCell(fitted, c, Present(v)).code :
                                     v \in Range(fitted.categories[c])}]
    /\ UNCHANGED <<files, pc, kind, artifacts, route, seen, after_failure, nCalls,
                   nEnv, nLoads, nTrainRuns, loadFailed, answered>>

NextEncode == TransformCell

\* calculate_monthly_payment called on its own.  12000 is the 120,000 MXN of
\* the 12-month example; the 12-month term is used at rate 0 only, where no
\* power is taken.
PaymentPrincipals == {0, 12000, 100600}

PaymentInputs ==
    {in \in [principal : PaymentPrincipals, annual_rate : BankRates,
             term_months : Terms \cup {12}] :
        in.annual_rate = 0 \/ in.term_months \in Terms}

ApplyPayment ==
    /\ \E in \in PaymentInputs :
         returned' =
           [kind |-> "payment", principal |-> in.principal,
            annual_rate |-> in.annual_rate, term_months |-> in.term_months,
            payment |-> calculate_monthly_payment(in.principal, in.annual_rate,
                                                  in.term_months)]
    /\ UNCHANGED <<files, pc, kind, artifacts, route, seen, after_failure, nCalls,
                   nEnv, nLoads, nTrainRuns, loadFailed, answered>>

NextPayment == ApplyPayment

SpecPayment == Init /\ [][NextPayment]_vars

SpecEncode == Init /\ [][NextEncode]_vars

\* ==================================================================== claims
IsQuote == returned.kind = "quote"

HasFrame == "GrAppv" \in DOMAIN returned.loan_df

\* A LoanRequest the spec calls valid for the fee bounds.
ValidRequest(req) == req.approved_amount > 0 /\ req.term_months > 0

\* A LoanRequest the spec says must be rejected.
InvalidRequest(req) ==
    req.approved_amount <= 0 \/ req.term_months <= 0 \/ req.num_employees < 0

\* Risk category as the spec defines it (pd in per mille).
GpsCategory(pd) ==
    IF pd < 10 THEN "Ultra-Oro"
    ELSE IF pd < 30 THEN "Oro"
    ELSE "Rechazo (Riesgo Alto)"

\* C1: for every valid request, the guarantee_fee of the returned record lies
\* in [guaranteed_amount * 0.005, guaranteed_amount * 0.05], both inclusive,
\* and is therefore non-negative, whatever the expected loss.
C1_FeeWithinBounds ==
    (IsQuote /\ ValidRequest(returned.req)) =>
        LET q == returned.quote IN
        /\ q.nafin_guaranteed * 5 <= q.guarantee_fee * 1000
        /\ q.guarantee_fee * 1000 <= q.nafin_guaranteed * 50
        /\ q.guarantee_fee >= 0

\* A valid request whose raw fee (EL * 1.20) exceeds the cap was quoted.
C1_Witness ==
    /\ IsQuote
    /\ ValidRequest(returned.req)
    /\ returned.quote.expected_loss * 12 * 1000 > returned.quote.nafin_guaranteed * 50 * 10
    /\ returned.quote.guarantee_fee * 1000 = returned.quote.nafin_guaranteed * 50

\* C2: in every returned record total_financed = approved_amount +
\* guarantee_fee (the final fee of that record), and monthly_payment is the
\* payment on that total_financed, not on approved_amount.
C2_TotalFinanced ==
    IsQuote =>
        LET q == returned.quote IN
        /\ q.total_financed = q.approved_amount + q.guarantee_fee
        /\ q.monthly_payment.principal = q.approved_amount + q.guarantee_fee
        /\ q.monthly_payment =
             calculate_monthly_payment(q.total_financed, q.bank_rate, q.term_months)

\* A quote with a positive fee and a payment at a non-zero rate was returned.
C2_Witness ==
    /\ IsQuote
    /\ returned.quote.guarantee_fee > 0
    /\ returned.quote.bank_rate # 0
    /\ returned.quote.term_months > 0
    /\ returned.quote.monthly_payment.principal > returned.quote.approved_amount

\* C3: the guaranteed amount is 80% of the amount up to and including
\* 2,000,000 and 70% above it, and the NAFIN_Appv feature handed to the
\* models is the nafin_guaranteed of the quote.
C3_GuaranteeTiers ==
    /\ HasFrame =>
         returned.loan_df.NAFIN_Appv * 100 =
            returned.loan_df.GrAppv * (IF returned.loan_df.GrAppv <= 200000 THEN 80 ELSE 70)
    /\ IsQuote =>
         /\ returned.quote.nafin_guaranteed * 100 =
              returned.quote.approved_amount *
                 (IF returned.quote.approved_amount <= 200000 THEN 80 ELSE 70)
         /\ returned.loan_df.NAFIN_Appv = returned.quote.nafin_guaranteed

\* A quote for exactly 2,000,000 MXN carries the 80% guarantee.
C3_Witness ==
    /\ IsQuote
    /\ returned.quote.approved_amount = 200000
    /\ returned.quote.nafin_guaranteed = 160000
    /\ returned.loan_df.NAFIN_Appv = 160000

\* C4: a request with a non-positive amount or term or a negative employee
\* count is rejected with InvalidInputError: no quote is returned for it and
\* it never ends in a division by zero.
C4_InvalidInputRejected ==
    (returned.kind \in {"quote", "error"} /\ returned.req # NoReq
        /\ InvalidRequest(returned.req)
        /\ returned.error \notin {"KeyError", "ValueError"}) =>
            /\ returned.kind = "error"
            /\ returned.error = "InvalidInputError"

\* C5: every returned record carries the risk category, a function of PD
\* alone: Ultra-Oro below 1%, Oro below 3%, Rechazo from 3%.
C5_CategoryInQuote ==
    IsQuote =>
        /\ "gps_category" \in DOMAIN returned.quote
        /\ returned.quote.gps_category = GpsCategory(returned.quote.pd)

\* C6: the frame handed to transform_data holds every column the preprocessor
\* of create_preprocessor requires, with IsUrban = 1 and HasRealEstate /
\* InRecession 0 unless the caller passed them true.
C6_FrameHasRequiredColumns ==
    HasFrame =>
        /\ RequiredColumns(create_preprocessor) \subseteq DOMAIN returned.loan_df
        /\ returned.loan_df.IsUrban = 1
        /\ returned.loan_df.HasRealEstate = (IF returned.req.has_real_estate THEN 1 ELSE 0)
        /\ returned.loan_df.InRecession = (IF returned.req.in_recession THEN 1 ELSE 0)

\* C7: over any interleaving of requests the bundle is loaded or fitted
\* exactly once in the process.
C7_LoadedOnce == nLoads <= 1 /\ nTrainRuns <= 1

\* C8: once a load has failed, no request that begins later gets a bundle or
\* a quote; it fails without the load being attempted again.
C8_FailFastAfterFailure ==
    /\ \A t \in Threads : after_failure[t] => pc[t] # "loaded"
    /\ IsQuote => ~returned.after_failure

C10_ScoresInRange ==
    (IsQuote /\ ValidRequest(returned.req) /\ returned.req.num_employees >= 0) =>
        /\ returned.quote.pd >= 0 /\ returned.quote.pd <= 1000
        /\ returned.quote.lgd >= 0
        /\ returned.quote.expected_loss >= 0

IsEncoded == returned.kind = "encoded"

\* C11: for every categorical feature the fitted transform maps a category
\* not seen at fit time to the unknown code -1 without raising and a missing
\* value to the missing code -2; the two reserved codes differ from each
\* other and from the code of every category seen at fit time.
C11_ReservedCodes ==
    IsEncoded =>
        /\ (~returned.cell.missing /\ ~returned.seen) =>
              ~returned.raised /\ returned.code = -1
        /\ returned.cell.missing => ~returned.raised /\ returned.code = -2
        /\ -1 \notin returned.seen_codes
        /\ -2 \notin returned.seen_codes
        /\ returned.seen => returned.code \in returned.seen_codes

IsPayment == returned.kind = "payment"

\* C12: for term_months > 0 and annual_rate = 0 the payment is exactly
\* principal / term_months, so term_months payments repay the principal; the
\* annuity formula P * r * (1+r)^n / ((1+r)^n - 1) with r = (annual_rate/100)/12
\* is used exactly when annual_rate is not 0.
C12_ZeroRatePayment ==
    (IsPayment /\ returned.term_months > 0) =>
        LET pay == returned.payment
            n == returned.term_months
        IN
        /\ pay.principal = returned.principal
        /\ returned.annual_rate = 0 =>
             /\ pay.num = 1 /\ pay.den = n
             /\ n * pay.principal * pay.num = returned.principal * pay.den
        /\ returned.annual_rate # 0 =>
             \E a \in 1..returned.annual_rate, b \in 1..1200 :
                /\ a * 1200 = b * returned.annual_rate
                /\ Gcd(a, b) = 1
                /\ pay.num = a * Pow(a + b, n)
                /\ pay.den = b * (Pow(a + b, n) - Pow(b, n))

\* 120,000 MXN over 12 months at 0% was computed: 10,000 MXN a month.
C12_Witness ==
    /\ IsPayment
    /\ returned.principal = 12000
    /\ returned.annual_rate = 0
    /\ returned.term_months = 12
    /\ returned.payment.principal * returned.payment.num = 1000 * returned.payment.den


\* Two answers of the log were given for the same arguments against the same
\* bundle.
SameCall(a, b) == a.bundle = b.bundle /\ a.req = b.req

SameOutcome(a, b) == a.kind = b.kind /\ a.error = b.error /\ a.quote = b.quote

\* A step of calculate_quote past load_models: thread t hands its result back.
QuoteReturns(t) == pc[t] = "loaded" /\ kind[t] = "quote" /\ pc'[t] = "idle"

RawFee(q) == q.expected_loss * 1200

FeeFloor(q) == q.nafin_guaranteed * 5

FeeCap(q) == q.nafin_guaranteed * 50

\* C14: in every returned record the guarantee_fee is the raw fee
\* pd * lgd * calibration_factor * 1.20 clamped to [floor, cap]: the raw fee
\* when floor <= raw <= cap, the floor when raw < floor, the cap when
\* raw > cap (either of the two where both comparisons hold at once); and
\* expected_loss is pd * lgd * calibration_factor.
C14_FeeIsClamp ==
    IsQuote =>
        LET q == returned.quote
            fee == q.guarantee_fee * 1000
            raw == RawFee(q)
            floor == FeeFloor(q)
            cap == FeeCap(q)
        IN
        /\ q.expected_loss * 10000 =
             q.pd * q.lgd * BundleOf(returned.bundle).calibration_factor
        /\ (floor <= raw /\ raw <= cap) => fee = raw
        /\ (raw < floor /\ ~(raw > cap)) => fee = floor
        /\ (raw > cap /\ ~(raw < floor)) => fee = cap
        /\ (raw < floor /\ raw > cap) => fee \in {floor, cap}
====
